---- MODULE Spec2Model ----
(***************************************************************************)
(* Model of the puzzle solvers of advent-of-code-2022:                     *)
(*   day_15/aoc_2022_15.py  parse, blend_coverage_ranges,                  *)
(*                          get_sensors_coverage_at_row, part1, part2,     *)
(*                          is_covered, solve                              *)
(*   day_05/aoc_2022_05.py  parse_moves                                    *)
(* Three specifications share the module:                                  *)
(*   SpecBlend  blend_coverage_ranges as a pure function of its argument   *)
(*   Spec       day 15: parse, then part1 / part2 / solve                  *)
(*   SpecMoves  day 5: parse_moves                                         *)
(***************************************************************************)
EXTENDS Integers, Sequences, FiniteSets, TLC

VARIABLES
    pc,               \* position of the running program
    \* ---- blend_coverage_ranges called on its own
    ranges,           \* the argument
    blended,          \* <<>> or <<blend_coverage_ranges(ranges)>>
    reblended,        \* <<>> or <<blend_coverage_ranges(blended[1])>>
    \* ---- day 15
    puzzle_input,     \* the input text, a sequence of lines
    line_no,          \* parse: index of the next line
    data,             \* dict[Coord, Coord]: sensor -> beacon
    target_row,       \* part1's parameter row
    search_area_size, \* part2's parameter
    called,           \* "none", "part1", "part2" or "solve": the entry point
    solution1,        \* <<>> or <<value returned by part1>>
    solution2,        \* <<>> or <<value returned by part2>>
    row,              \* part2: loop variable of the scan loop
    row_coverage,     \* part2: dict[int, list[tuple[int, int]]]
    row_candidates,   \* part2: list of rows
    cand,             \* part2: index of the next row of row_candidates
    x,                \* part2: <<>> or <<x of the gap that was returned>>
    blend_arg,        \* <<>> or <<argument of the last blend_coverage_ranges call>>
    fault,            \* "none" or the exception raised
    \* ---- day 5
    moves_input,      \* the input text, a sequence of characters
    move_no,          \* parse_moves: index of the next line
    commands          \* parse_moves: list of Move

blendVars == <<ranges, blended, reblended>>
day15Vars == <<puzzle_input, line_no, data, target_row, search_area_size, called,
               solution1, solution2, row, row_coverage, row_candidates, cand, x,
               blend_arg, fault>>
day05Vars == <<moves_input, move_no, commands>>
vars == <<pc, blendVars, day15Vars, day05Vars>>

(***************************************************************************)
(* Bounds of the model.                                                    *)
(***************************************************************************)
MaxLen == 3        \* blend on its own: at most this many intervals
MaxEnd == 3        \* blend on its own: interval ends lie in -1..MaxEnd
MaxLines == 1      \* day 15: at most this many lines drawn from the grid
MaxCoord == 2      \* day 15: grid lines have coordinates in 0..MaxCoord
MaxRow == 2        \* day 15: part1 and part2 called with row, size in 0..MaxRow
MaxMoveLines == 2  \* day 5: at most this many lines of moves
MaxNumber == 2     \* day 5: well-formed lines have numbers in 1..MaxNumber

Last(s) == s[Len(s)]
Abs(n) == IF n < 0 THEN -n ELSE n

RECURSIVE SumSeq(_)
SumSeq(s) == IF s = <<>> THEN 0 ELSE s[1] + SumSeq(Tail(s))

(***************************************************************************)
(* blend_coverage_ranges.  A range is a tuple <<start, end>>.              *)
(***************************************************************************)

\* sorted(ranges, key=lambda x: x[0]): one step of a stable sort, r goes after
\* every element whose start is <= its own
InsertByStart(sorted, r) ==
    LET k == Cardinality({i \in 1..Len(sorted) : sorted[i][1] <= r[1]})
    IN  SubSeq(sorted, 1, k) \o <<r>> \o SubSeq(sorted, k + 1, Len(sorted))

RECURSIVE SortedByStart(_)
SortedByStart(rs) ==
    IF rs = <<>> THEN <<>>
    ELSE InsertByStart(SortedByStart(SubSeq(rs, 1, Len(rs) - 1)), Last(rs))

\* a faulty variant: the merged range is appended instead of replacing the last one
BlendStepAppends(blended_ranges, r) ==
    LET last_start == Last(blended_ranges)[1]
        last_end == Last(blended_ranges)[2]
    IN  IF r[1] <= last_end + 1 /\ r[2] >= last_end
        THEN Append(blended_ranges, <<last_start, r[2]>>)
        ELSE IF r[1] <= last_end /\ r[2] <= last_end
        THEN blended_ranges
        ELSE Append(blended_ranges, r)

\* a faulty variant: only overlapping ranges are merged, touching ones are not
BlendStepNoTouch(blended_ranges, r) ==
    LET last_start == Last(blended_ranges)[1]
        last_end == Last(blended_ranges)[2]
    IN  IF r[1] <= last_end /\ r[2] >= last_end
        THEN [blended_ranges EXCEPT ![Len(blended_ranges)] = <<last_start, r[2]>>]
        ELSE IF r[1] <= last_end /\ r[2] <= last_end
        THEN blended_ranges
        ELSE Append(blended_ranges, r)

\* the body of the for loop
BlendStep(blended_ranges, r) ==
    LET last_start == Last(blended_ranges)[1]
        last_end == Last(blended_ranges)[2]
    IN  IF r[1] <= last_end + 1 /\ r[2] >= last_end
        THEN [blended_ranges EXCEPT ![Len(blended_ranges)] = <<last_start, r[2]>>]
        ELSE IF r[1] <= last_end /\ r[2] <= last_end
        THEN blended_ranges
        ELSE Append(blended_ranges, r)

RECURSIVE BlendLoop(_, _, _)
BlendLoop(blended_ranges, rs, i) ==
    IF i > Len(rs) THEN blended_ranges
    ELSE BlendLoop(BlendStep(blended_ranges, rs[i]), rs, i + 1)

\* defined for a non-empty list; ranges[0] of an empty list raises IndexError,
\* which the callers below model as fault = "IndexError"
blend_coverage_ranges(rs) ==
    LET sorted == SortedByStart(rs)
    IN  BlendLoop(<<sorted[1]>>, sorted, 1)

\* the integers a list of ranges covers
Covered(rs) == UNION {rs[i][1]..rs[i][2] : i \in 1..Len(rs)}

(***************************************************************************)
(* SpecBlend: blend_coverage_ranges applied to every list of at most       *)
(* MaxLen ranges with ends in -1..MaxEnd, and to its own result.           *)
(***************************************************************************)
Ends == (-1)..MaxEnd
RangeSet == {r \in Ends \X Ends : r[1] <= r[2]}

IdleBlend == ranges = <<>> /\ blended = <<>> /\ reblended = <<>>
IdleDay15 ==
    /\ puzzle_input = <<>> /\ line_no = 0 /\ data = <<>>
    /\ target_row = 0 /\ search_area_size = 0 /\ called = "none"
    /\ solution1 = <<>> /\ solution2 = <<>>
    /\ row = 0 /\ row_coverage = <<>> /\ row_candidates = <<>> /\ cand = 0
    /\ x = <<>> /\ blend_arg = <<>> /\ fault = "none"
IdleDay05 == moves_input = <<>> /\ move_no = 0 /\ commands = <<>>

InitBlend ==
    /\ pc = "blend"
    /\ \E n \in 1..MaxLen : ranges \in [1..n -> RangeSet]
    /\ blended = <<>> /\ reblended = <<>>
    /\ IdleDay15 /\ IdleDay05

Blend ==
    /\ pc = "blend"
    /\ blended' = <<blend_coverage_ranges(ranges)>>
    /\ pc' = "blend_again"
    /\ UNCHANGED <<ranges, reblended, day15Vars, day05Vars>>

BlendAgain ==
    /\ pc = "blend_again"
    /\ reblended' = <<blend_coverage_ranges(blended[1])>>
    /\ pc' = "blend_done"
    /\ UNCHANGED <<ranges, blended, day15Vars, day05Vars>>

NextBlend == Blend \/ BlendAgain
SpecBlend == InitBlend /\ [][NextBlend]_vars

\* C1: the result of blend_coverage_ranges on a non-empty list of ranges with
\* start <= end is sorted by start, consecutive ranges are at least 2 apart
\* (right.start - left.end >= 2), and it covers exactly the integers the
\* argument covers.
C1_BlendDisjointSameUnion ==
    blended # <<>> =>
        LET b == blended[1]
        IN  /\ \A i \in 1..Len(b) - 1 :
                 /\ b[i][1] <= b[i + 1][1]
                 /\ b[i + 1][1] - b[i][2] >= 2
            /\ Covered(b) = Covered(ranges)

\* a blend of three ranges of which two touch (and merge) and one stays apart
C1_Witness ==
    /\ blended # <<>>
    /\ Len(ranges) = 3
    /\ Len(blended[1]) = 2
    /\ \E i, j \in 1..3 : ranges[j][1] = ranges[i][2] + 1

\* C7: blend_coverage_ranges(blend_coverage_ranges(L)) = blend_coverage_ranges(L)
\* for every non-empty list L of ranges with start <= end.
C7_BlendIdempotent ==
    reblended # <<>> => reblended[1] = blended[1]

\* a second blend of a result that merged overlapping ranges and kept two apart
C7_Witness ==
    /\ reblended # <<>>
    /\ Len(blended[1]) = 2
    /\ Len(ranges) = 3
    /\ blended[1] # ranges

(***************************************************************************)
(* Day 15.  A line of the input is the tuple <<sx, sy, bx, by>> of the     *)
(* four number texts of                                                    *)
(*   Sensor at x=<sx>, y=<sy>: closest beacon is at x=<bx>, y=<by>         *)
(* each a sequence of characters.  A Coord is <<x, y>>, a range is         *)
(* <<start, end>>, a dict is a function, None and an unset value are <<>>  *)
(* and a set value v is <<v>>.                                             *)
(***************************************************************************)
FrequencyFactor == 4000000
DefaultRow == 10
DefaultSearchAreaSize == 20

Digits == <<"0", "1", "2", "3", "4", "5", "6", "7", "8", "9">>
DigitSet == {Digits[i] : i \in 1..10}
DigitValue(c) == (CHOOSE i \in 1..10 : Digits[i] = c) - 1

\* a group (\d+) of input_regex: one or more decimal digits, no sign
MatchesDigits(t) == Len(t) >= 1 /\ \A i \in 1..Len(t) : t[i] \in DigitSet

\* input_regex.match(line)
InputRegexMatches(line) == \A g \in 1..4 : MatchesDigits(line[g])

\* int(match.group(g))
RECURSIVE ToInt(_)
ToInt(t) ==
    IF t = <<>> THEN 0
    ELSE 10 * ToInt(SubSeq(t, 1, Len(t) - 1)) + DigitValue(Last(t))

\* Coord.distance: the Manhattan distance
distance(a, b) == Abs(a[1] - b[1]) + Abs(a[2] - b[2])

\* Sensor.get_coverage_at_row: None or the range of the row within scan_range
get_coverage_at_row(sensor, r) ==
    LET span == sensor.scan_range - Abs(r - sensor.coord[2])
    IN  IF span < 0 THEN <<>>
        ELSE <<<<sensor.coord[1] - span, sensor.coord[1] + span>>>>

\* the set sensors that part1 and part2 build from data
Sensors(d) == {[coord |-> s, scan_range |-> distance(s, d[s])] : s \in DOMAIN d}

\* the order in which the set sensors is iterated: some fixed order (SpecBlend
\* applies blend_coverage_ranges to the ranges in every order)
RECURSIVE SetToSeq(_)
SetToSeq(S) ==
    IF S = {} THEN <<>>
    ELSE LET e == CHOOSE e \in S : TRUE IN <<e>> \o SetToSeq(S \ {e})

RECURSIVE CoverageOf(_, _)
CoverageOf(ss, r) ==
    IF ss = <<>> THEN <<>>
    ELSE get_coverage_at_row(Head(ss), r) \o CoverageOf(Tail(ss), r)

\* the list coverage_ranges of get_sensors_coverage_at_row: the coverage of
\* every sensor that has one on the row
CoverageRanges(d, r) == CoverageOf(SetToSeq(Sensors(d)), r)

\* a faulty variant: every beacon of the row is counted once per sensor that names it
BeaconsAtRowPerSensor(d, r) == Cardinality({s \in DOMAIN d : d[s][2] = r})

\* len(beacons_at_row)
BeaconsAtRow(d, r) == Cardinality({d[s] : s \in {t \in DOMAIN d : d[t][2] = r}})

\* part1 once get_sensors_coverage_at_row has returned covered_at_row
Part1Value(d, r, covered_at_row) ==
    SumSeq([i \in 1..Len(covered_at_row) |->
                covered_at_row[i][2] - covered_at_row[i][1] + 1])
    - BeaconsAtRow(d, r)

is_covered(coverage, xx) ==
    \E i \in 1..Len(coverage) : coverage[i][1] <= xx /\ xx <= coverage[i][2]

\* a faulty variant: a row that was not scanned counts as covered
CoveredAtMissingIsCovered(rc, r, xx) ==
    IF r \in DOMAIN rc /\ rc[r] # <<>> THEN is_covered(rc[r], xx) ELSE TRUE

\* covered_above / covered_below: row_coverage.get(r), and is_covered if it is
\* a non-empty list
CoveredAt(rc, r, xx) ==
    IF r \in DOMAIN rc /\ rc[r] # <<>> THEN is_covered(rc[r], xx) ELSE FALSE

\* a faulty variant: a gap is two ranges that touch
IsGapOfOneTouching(left, right) == right[1] - left[2] = 1

\* right[0] - left[1] == 2
IsGapOfOne(left, right) == right[1] - left[2] = 2

\* the pairs (coverage[i], coverage[i + 1]) of row r at which part2 returns
Hits(rc, r) ==
    {i \in 1..Len(rc[r]) - 1 :
        /\ IsGapOfOne(rc[r][i], rc[r][i + 1])
        /\ CoveredAt(rc, r - 1, rc[r][i][2] + 1)
        /\ CoveredAt(rc, r + 1, rc[r][i][2] + 1)}

Min(S) == CHOOSE m \in S : \A n \in S : m <= n

(***************************************************************************)
(* The inputs of day 15: every set of at most MaxLines lines with          *)
(* coordinates in 0..MaxCoord, the example of the puzzle, and two sensors  *)
(* that leave a gap right of a search area of size 2.  part1 and part2 are *)
(* called on the parsed data with every row and size in 0..MaxRow, and     *)
(* solve with the row 10 and the size 20 of __main__.                      *)
(***************************************************************************)
RECURSIVE Decimal(_)
Decimal(n) ==
    IF n < 10 THEN <<Digits[n + 1]>> ELSE Append(Decimal(n \div 10), Digits[(n % 10) + 1])
NumText(n) == IF n < 0 THEN <<"-">> \o Decimal(-n) ELSE Decimal(n)
Line(sx, sy, bx, by) == <<NumText(sx), NumText(sy), NumText(bx), NumText(by)>>

GridSide == MaxCoord + 1
GridLineCount == GridSide * GridSide * GridSide * GridSide
GridLine(k) ==
    Line(k \div (GridSide * GridSide * GridSide),
         (k \div (GridSide * GridSide)) % GridSide,
         (k \div GridSide) % GridSide,
         k % GridSide)
\* the lines numbered f[1] < f[2] < ... of the grid
IsGridChoice(f) == \A i \in 1..Len(f) - 1 : f[i] < f[i + 1]
GridInput(f) == [i \in 1..Len(f) |-> GridLine(f[i])]

Example == <<
    Line(2, 18, -2, 15), Line(9, 16, 10, 16), Line(13, 2, 15, 3),
    Line(12, 14, 10, 16), Line(10, 20, 10, 16), Line(14, 17, 10, 16),
    Line(8, 7, 2, 10), Line(2, 0, 2, 10), Line(0, 11, 2, 10),
    Line(20, 14, 25, 17), Line(20, 1, 15, 3), Line(17, 20, 21, 22),
    Line(16, 7, 15, 3), Line(14, 3, 15, 3)>>
GapOutside == <<Line(2, 0, 3, 0), Line(4, 2, 4, 1)>>

Rows == 0..MaxRow
Sizes == 0..MaxRow

Init ==
    /\ pc = "parse"
    /\ \/ \E n \in 0..MaxLines : \E f \in [1..n -> 0..GridLineCount - 1] :
             IsGridChoice(f) /\ puzzle_input = GridInput(f)
       \/ puzzle_input \in {Example, GapOutside}
    /\ line_no = 1 /\ data = <<>>
    /\ target_row = 0 /\ search_area_size = 0 /\ called = "none"
    /\ solution1 = <<>> /\ solution2 = <<>>
    /\ row = 0 /\ row_coverage = <<>> /\ row_candidates = <<>> /\ cand = 0
    /\ x = <<>> /\ blend_arg = <<>> /\ fault = "none"
    /\ IdleBlend /\ IdleDay05

part2Vars == <<search_area_size, solution2, row, row_coverage, row_candidates, cand, x>>

\* parse: a line that input_regex matches
ParseLine ==
    /\ pc = "parse" /\ line_no <= Len(puzzle_input)
    /\ InputRegexMatches(puzzle_input[line_no])
    /\ LET line == puzzle_input[line_no]
           sensor == <<ToInt(line[1]), ToInt(line[2])>>
           beacon == <<ToInt(line[3]), ToInt(line[4])>>
       IN  data' = (sensor :> beacon) @@ data
    /\ line_no' = line_no + 1
    /\ UNCHANGED <<pc, puzzle_input, target_row, called, solution1, blend_arg, fault,
                   part2Vars, blendVars, day05Vars>>

\* parse: a line that input_regex does not match
ParseSkipLine ==
    /\ pc = "parse" /\ line_no <= Len(puzzle_input)
    /\ ~InputRegexMatches(puzzle_input[line_no])
    /\ line_no' = line_no + 1
    /\ UNCHANGED <<pc, puzzle_input, data, target_row, called, solution1, blend_arg,
                   fault, part2Vars, blendVars, day05Vars>>

ParseReturn ==
    /\ pc = "parse" /\ line_no > Len(puzzle_input)
    /\ pc' = "parsed"
    /\ UNCHANGED <<puzzle_input, line_no, data, target_row, called, solution1,
                   blend_arg, fault, part2Vars, blendVars, day05Vars>>

\* part1(data, r), called on its own or as the first call of solve
Part1(entry, r) ==
    /\ pc = "parsed"
    /\ called' = entry /\ target_row' = r
    /\ LET coverage_ranges == CoverageRanges(data, r)
       IN  /\ blend_arg' = <<coverage_ranges>>
           /\ IF coverage_ranges = <<>>
              THEN /\ fault' = "IndexError" /\ pc' = "raised"
                   /\ UNCHANGED solution1
              ELSE /\ solution1' =
                        <<Part1Value(data, r, blend_coverage_ranges(coverage_ranges))>>
                   /\ pc' = IF entry = "solve" THEN "part2" ELSE "done"
                   /\ UNCHANGED fault
    /\ UNCHANGED <<puzzle_input, line_no, data, part2Vars, blendVars, day05Vars>>

\* part2(data, n) up to its first loop
Part2Begin(n) ==
    /\ search_area_size' = n
    /\ row' = 0 /\ row_coverage' = <<>> /\ row_candidates' = <<>>
    /\ pc' = "scan"
    /\ UNCHANGED <<puzzle_input, line_no, data, target_row, solution1, solution2, cand,
                   x, blend_arg, fault, blendVars, day05Vars>>

CallPart1 == \E r \in Rows : Part1("part1", r)
CallPart2 == \E n \in Sizes : pc = "parsed" /\ called' = "part2" /\ Part2Begin(n)
SolvePart1 == Part1("solve", DefaultRow)
SolvePart2 == pc = "part2" /\ UNCHANGED called /\ Part2Begin(DefaultSearchAreaSize)

\* one iteration of "for row in range(0, search_area_size + 1)"
ScanRow ==
    /\ pc = "scan" /\ row <= search_area_size
    /\ LET coverage_ranges == CoverageRanges(data, row)
       IN  /\ blend_arg' = <<coverage_ranges>>
           /\ IF coverage_ranges = <<>>
              THEN /\ fault' = "IndexError" /\ pc' = "raised"
                   /\ UNCHANGED <<row, row_coverage, row_candidates>>
              ELSE LET coverage == blend_coverage_ranges(coverage_ranges)
                   IN  /\ row_coverage' =
                            IF coverage # <<>> THEN (row :> coverage) @@ row_coverage
                            ELSE row_coverage
                       /\ row_candidates' =
                            IF coverage # <<>> /\ Len(coverage) > 1
                            THEN Append(row_candidates, row) ELSE row_candidates
                       /\ row' = row + 1
                       /\ UNCHANGED <<pc, fault>>
    /\ UNCHANGED <<puzzle_input, line_no, data, target_row, called, solution1,
                   search_area_size, solution2, cand, x, blendVars, day05Vars>>

ScanEnd ==
    /\ pc = "scan" /\ row > search_area_size
    /\ pc' = "check" /\ cand' = 1
    /\ UNCHANGED <<puzzle_input, line_no, data, target_row, called, solution1,
                   search_area_size, solution2, row, row_coverage, row_candidates, x,
                   blend_arg, fault, blendVars, day05Vars>>

\* one iteration of "for row in row_candidates": return at the first gap of one
\* that is covered above and below, or go on
CheckRow ==
    /\ pc = "check" /\ cand <= Len(row_candidates)
    /\ LET hits == Hits(row_coverage, row_candidates[cand])
       IN  IF hits # {}
           THEN LET xx == row_coverage[row_candidates[cand]][Min(hits)][2] + 1
                IN  /\ x' = <<xx>>
                    /\ solution2' = <<xx * FrequencyFactor + row_candidates[cand]>>
                    /\ pc' = "done"
                    /\ UNCHANGED cand
           ELSE /\ cand' = cand + 1
                /\ UNCHANGED <<x, solution2, pc>>
    /\ UNCHANGED <<puzzle_input, line_no, data, target_row, called, solution1,
                   search_area_size, row, row_coverage, row_candidates, blend_arg,
                   fault, blendVars, day05Vars>>

\* return -1
CheckEnd ==
    /\ pc = "check" /\ cand > Len(row_candidates)
    /\ solution2' = <<-1>>
    /\ pc' = "done"
    /\ UNCHANGED <<puzzle_input, line_no, data, target_row, called, solution1,
                   search_area_size, row, row_coverage, row_candidates, cand, x,
                   blend_arg, fault, blendVars, day05Vars>>

Next ==
    \/ ParseLine \/ ParseSkipLine \/ ParseReturn
    \/ CallPart1 \/ CallPart2 \/ SolvePart1 \/ SolvePart2
    \/ ScanRow \/ ScanEnd \/ CheckRow \/ CheckEnd
Spec == Init /\ [][Next]_vars

(***************************************************************************)
(* What the claims about day 15 speak of, stated from the geometry and not *)
(* from the ranges the program computes.                                   *)
(***************************************************************************)
\* the point p is within the radius of at least one sensor
InRadius(d, p) == \E s \in DOMAIN d : distance(s, p) <= distance(s, d[s])
Beacons(d) == {d[s] : s \in DOMAIN d}
RowReached(d, r) == \E s \in DOMAIN d : Abs(r - s[2]) <= distance(s, d[s])
\* every x within the radius of a sensor lies in the window, with a margin of 1
Window(d) ==
    IF DOMAIN d = {} THEN {}
    ELSE LET lows == {s[1] - distance(s, d[s]) : s \in DOMAIN d}
             highs == {s[1] + distance(s, d[s]) : s \in DOMAIN d}
         IN  (Min(lows) - 1)..(-Min({-h : h \in highs}) + 1)
Uncovered(d, n) == {p \in (0..n) \X (0..n) : ~InRadius(d, p)}
SinglePointGap(d, r) ==
    \E xx \in Window(d) :
        /\ ~InRadius(d, <<xx, r>>)
        /\ InRadius(d, <<xx - 1, r>>) /\ InRadius(d, <<xx + 1, r>>)
Part1Ended == called \in {"part1", "solve"} /\ pc \in {"done", "part2", "raised"}
Part2Started ==
    \/ called = "part2"
    \/ called = "solve" /\ solution1 # <<>> /\ pc # "part2"
Part2Ended == Part2Started /\ pc \in {"done", "raised"}

\* C2: for a target row that at least one sensor reaches, part1 returns the
\* number of x such that (x, row) is within the radius of a sensor and is not
\* the position of a beacon; a beacon shared by several sensors counts once.
C2_Part1CountsCoveredNonBeacons ==
    /\ solution1 # <<>> =>
         solution1[1] =
            Cardinality({xx \in Window(data) :
                            /\ InRadius(data, <<xx, target_row>>)
                            /\ <<xx, target_row>> \notin Beacons(data)})
    /\ (Part1Ended /\ RowReached(data, target_row)) => solution1 # <<>>

\* part1 has returned for a row that holds a beacon shared by two sensors
C2_Witness ==
    /\ solution1 # <<>>
    /\ \E s1, s2 \in DOMAIN data :
         s1 # s2 /\ data[s1] = data[s2] /\ data[s1][2] = target_row

\* C3: when exactly one point of the square 0..N x 0..N lies outside every
\* sensor's radius, part2 returns x * 4000000 + y for that point, also when the
\* point is on the border of the square.  Stated of the calls that return.
C3_Part2ReturnsTheUniquePoint ==
    (Part2Ended /\ pc = "done") =>
        \A p \in Uncovered(data, search_area_size) :
            Uncovered(data, search_area_size) = {p} =>
                solution2 = <<p[1] * FrequencyFactor + p[2]>>

\* C4: part2 returns -1 and raises nothing whenever no row of
\* 0..search_area_size has a single-point gap, in particular when every row is
\* fully covered or reached by no sensor.  Stated of inputs with a sensor.
C4_Part2ReturnsNotFound ==
    (/\ Part2Ended /\ DOMAIN data # {}
     /\ \A r \in 0..search_area_size : ~SinglePointGap(data, r))
    => (fault = "none" /\ solution2 = <<-1>>)

\* C5: blend_coverage_ranges is only ever called with at least one range; a row
\* that no sensor reaches is skipped by the caller.  Stated of inputs with a
\* sensor.
C5_BlendNeverCalledWithNoRange ==
    (blend_arg # <<>> /\ DOMAIN data # {}) => blend_arg[1] # <<>>

\* C6: solve on the 14-line example of the puzzle with row = 10 and
\* search_area_size = 20 returns (26, 56000011).
C6_ExampleSolutions ==
    (called = "solve" /\ puzzle_input = Example /\ pc \in {"done", "raised"})
    => (pc = "done" /\ solution1 = <<26>> /\ solution2 = <<56000011>>)

\* solve has returned on the example, whose line with the beacon at x=-2 is
\* the one line parse did not take
C6_Witness ==
    /\ called = "solve" /\ puzzle_input = Example /\ pc = "done"
    /\ target_row = DefaultRow /\ search_area_size = DefaultSearchAreaSize
    /\ Cardinality(DOMAIN data) = Len(Example) - 1

\* C9: a value other than -1 returned by part2 is x * 4000000 + row for a
\* point of the square 0..N x 0..N that lies outside every sensor's radius; a
\* gap whose x is outside 0..N is never reported.
C9_ReportedPointIsInTheSquare ==
    (solution2 # <<>> /\ solution2 # <<-1>>) =>
        \E xx \in 0..search_area_size, r \in 0..search_area_size :
            /\ solution2 = <<xx * FrequencyFactor + r>>
            /\ ~InRadius(data, <<xx, r>>)

\* C10, as claimed: the gap x of row r is reported only if x is not inside the
\* coverage of row r - 1 and not inside the coverage of row r + 1.
C10_ReportedOnlyIfUncoveredAboveAndBelow ==
    x # <<>> =>
        /\ ~InRadius(data, <<x[1], row_candidates[cand] - 1>>)
        /\ ~InRadius(data, <<x[1], row_candidates[cand] + 1>>)

\* C10, amended: the gap x of row r is reported only if rows r - 1 and r + 1
\* both lie in 0..search_area_size and x is inside the coverage of both.
C10_ReportedOnlyIfCoveredAboveAndBelow ==
    x # <<>> =>
        /\ row_candidates[cand] - 1 >= 0
        /\ row_candidates[cand] + 1 <= search_area_size
        /\ InRadius(data, <<x[1], row_candidates[cand] - 1>>)
        /\ InRadius(data, <<x[1], row_candidates[cand] + 1>>)

\* part2 has returned the gap x of a row: x is outside every radius on its row
C10_Witness ==
    /\ x # <<>> /\ pc = "done"
    /\ solution2 = <<x[1] * FrequencyFactor + row_candidates[cand]>>
    /\ ~InRadius(data, <<x[1], row_candidates[cand]>>)

(***************************************************************************)
(* Day 5: parse_moves.  moves_input is a sequence of characters; a Move is *)
(* a record [count, source, target].                                       *)
(***************************************************************************)
NewLine == "\n"
WordMove == <<"m", "o", "v", "e", " ">>
WordFrom == <<" ", "f", "r", "o", "m", " ">>
WordTo == <<" ", "t", "o", " ">>

\* str.splitlines for a text whose only line boundary is "\n": no last empty
\* line after a final boundary
RECURSIVE SplitLines(_)
SplitLines(t) ==
    IF t = <<>> THEN <<>>
    ELSE LET ends == {i \in 1..Len(t) : t[i] = NewLine}
         IN  IF ends = {} THEN <<t>>
             ELSE <<SubSeq(t, 1, Min(ends) - 1)>>
                  \o SplitLines(SubSeq(t, Min(ends) + 1, Len(t)))

\* the literal lit is in the line at position p
LiteralAt(line, p, lit) ==
    /\ p + Len(lit) - 1 <= Len(line)
    /\ SubSeq(line, p, p + Len(lit) - 1) = lit

\* the position after the longest run of digits that starts at position p
RECURSIVE DigitsEnd(_, _)
DigitsEnd(line, p) ==
    IF p <= Len(line) /\ line[p] \in DigitSet THEN DigitsEnd(line, p + 1) ELSE p

\* COMMAND_PATTERN.match(line): None, or the three groups of
\* "move (\d+) from (\d+) to (\d+)" matched at the start of the line
CommandPatternMatch(line) ==
    LET c1 == Len(WordMove) + 1
        c2 == DigitsEnd(line, c1)
        s1 == c2 + Len(WordFrom)
        s2 == DigitsEnd(line, s1)
        t1 == s2 + Len(WordTo)
        t2 == DigitsEnd(line, t1)
    IN  IF /\ LiteralAt(line, 1, WordMove)
           /\ c2 > c1 /\ LiteralAt(line, c2, WordFrom)
           /\ s2 > s1 /\ LiteralAt(line, s2, WordTo)
           /\ t2 > t1
        THEN <<<<SubSeq(line, c1, c2 - 1), SubSeq(line, s1, s2 - 1),
                 SubSeq(line, t1, t2 - 1)>>>>
        ELSE <<>>

\* a faulty variant: the groups are taken as source, count, target
MoveOfSourceFirst(groups) ==
    [count |-> ToInt(groups[2]), source |-> ToInt(groups[1]),
     target |-> ToInt(groups[3])]

\* Move(*map(int, match.groups()))
MoveOf(groups) ==
    [count |-> ToInt(groups[1]), source |-> ToInt(groups[2]),
     target |-> ToInt(groups[3])]

(***************************************************************************)
(* The inputs of day 5: at most MaxMoveLines lines, joined by "\n", each a *)
(* well-formed line with numbers in 1..MaxNumber or one of the lines       *)
(* below; and the four lines of the example of the puzzle.                 *)
(***************************************************************************)
MoveLine(c, s, t) == WordMove \o c \o WordFrom \o s \o WordTo \o t
WellFormedLines ==
    {MoveLine(Decimal(c), Decimal(s), Decimal(t)) : c, s, t \in 1..MaxNumber}
OtherLines == {
    MoveLine(Decimal(12), Decimal(3), Decimal(10)),            \* several digits
    MoveLine(<<"0", "1">>, Decimal(2), Decimal(3)),            \* a leading zero
    MoveLine(Decimal(1), Decimal(2), Decimal(3)) \o <<"x">>,   \* text after the move
    MoveLine(Decimal(1), Decimal(3), Decimal(2)) \o <<" ", "4">>,
    <<" ">> \o MoveLine(Decimal(1), Decimal(2), Decimal(3)),   \* text before it
    MoveLine(NumText(-1), Decimal(2), Decimal(3)),             \* a sign
    MoveLine(Decimal(1), Decimal(2), <<>>),                    \* no target
    MoveLine(Decimal(1), <<"x">>, Decimal(3)),                 \* no number
    <<"M">> \o Tail(MoveLine(Decimal(1), Decimal(2), Decimal(3))),
    WordMove,
    <<>>}                                                      \* an empty line
MoveLines == WellFormedLines \cup OtherLines
\* no line of MoveLines has a run of more digits
MaxDigits == Len(Decimal(12)) + 1

RECURSIVE JoinLines(_)
JoinLines(ls) ==
    IF ls = <<>> THEN <<>>
    ELSE IF Len(ls) = 1 THEN ls[1]
    ELSE ls[1] \o <<NewLine>> \o JoinLines(Tail(ls))

ExampleMoves == JoinLines(<<
    MoveLine(Decimal(1), Decimal(2), Decimal(1)),
    MoveLine(Decimal(3), Decimal(1), Decimal(3)),
    MoveLine(Decimal(2), Decimal(2), Decimal(1)),
    MoveLine(Decimal(1), Decimal(1), Decimal(2))>>)

InitMoves ==
    /\ pc = "moves"
    /\ \/ \E n \in 0..MaxMoveLines : \E ls \in [1..n -> MoveLines] :
             moves_input = JoinLines(ls)
       \/ moves_input = ExampleMoves
    /\ move_no = 1 /\ commands = <<>>
    /\ IdleBlend /\ IdleDay15

\* one iteration of "for line in moves_input.splitlines()": a match
ParseMovesLine ==
    /\ pc = "moves" /\ move_no <= Len(SplitLines(moves_input))
    /\ LET match == CommandPatternMatch(SplitLines(moves_input)[move_no])
       IN  /\ match # <<>>
           /\ commands' = Append(commands, MoveOf(match[1]))
    /\ move_no' = move_no + 1
    /\ UNCHANGED <<pc, moves_input, blendVars, day15Vars>>

\* one iteration: no match
ParseMovesSkipLine ==
    /\ pc = "moves" /\ move_no <= Len(SplitLines(moves_input))
    /\ CommandPatternMatch(SplitLines(moves_input)[move_no]) = <<>>
    /\ move_no' = move_no + 1
    /\ UNCHANGED <<pc, moves_input, commands, blendVars, day15Vars>>

ParseMovesReturn ==
    /\ pc = "moves" /\ move_no > Len(SplitLines(moves_input))
    /\ pc' = "moves_done"
    /\ UNCHANGED <<moves_input, move_no, commands, blendVars, day15Vars>>

NextMoves == ParseMovesLine \/ ParseMovesSkipLine \/ ParseMovesReturn
SpecMoves == InitMoves /\ [][NextMoves]_vars

\* the line is "move ", a digits, " from ", b digits, " to ", c digits, and
\* then its end or a character that is no digit
IsMoveWith(line, a, b, c) ==
    LET from == Len(WordMove) + a
        to == from + Len(WordFrom) + b
        n == to + Len(WordTo) + c
    IN  /\ n <= Len(line)
        /\ SubSeq(line, 1, Len(WordMove)) = WordMove
        /\ \A i \in Len(WordMove) + 1..from : line[i] \in DigitSet
        /\ SubSeq(line, from + 1, from + Len(WordFrom)) = WordFrom
        /\ \A i \in from + Len(WordFrom) + 1..to : line[i] \in DigitSet
        /\ SubSeq(line, to + 1, to + Len(WordTo)) = WordTo
        /\ \A i \in to + Len(WordTo) + 1..n : line[i] \in DigitSet
        /\ n < Len(line) => line[n + 1] \notin DigitSet
\* the value of the decimal numeral line[p..q]
RECURSIVE Power10(_)
Power10(n) == IF n = 0 THEN 1 ELSE 10 * Power10(n - 1)
NumeralValue(line, p, q) ==
    SumSeq([i \in 1..q - p + 1 |-> DigitValue(line[p + i - 1]) * Power10(q - p + 1 - i)])
\* the moves the line starts with: none or one
MovesOfLine(line) ==
    {[count |-> NumeralValue(line, Len(WordMove) + 1, Len(WordMove) + w[1]),
      source |-> NumeralValue(line, Len(WordMove) + w[1] + Len(WordFrom) + 1,
                              Len(WordMove) + w[1] + Len(WordFrom) + w[2]),
      target |-> NumeralValue(line,
                    Len(WordMove) + w[1] + Len(WordFrom) + w[2] + Len(WordTo) + 1,
                    Len(WordMove) + w[1] + Len(WordFrom) + w[2] + Len(WordTo) + w[3])] :
        w \in {v \in (1..MaxDigits) \X (1..MaxDigits) \X (1..MaxDigits) :
                 IsMoveWith(line, v[1], v[2], v[3])}}
RECURSIVE ExpectedMoves(_)
ExpectedMoves(ls) ==
    IF ls = <<>> THEN <<>>
    ELSE (IF MovesOfLine(Head(ls)) = {} THEN <<>>
          ELSE <<CHOOSE m \in MovesOfLine(Head(ls)) : TRUE>>)
         \o ExpectedMoves(Tail(ls))

\* C8: parse_moves returns one Move(count, source, target) for each line that
\* starts with "move <count> from <source> to <target>", in the order of the
\* lines, the three numbers going to count, source and target in that order;
\* a line that does not match gives no Move.
C8_ParseMovesOneMovePerMatchingLine ==
    pc = "moves_done" =>
        /\ \A i \in 1..Len(SplitLines(moves_input)) :
             Cardinality(MovesOfLine(SplitLines(moves_input)[i])) <= 1
        /\ commands = ExpectedMoves(SplitLines(moves_input))

\* parse_moves has returned the four moves of the example, as test_parse_moves
\* expects them
C8_Witness ==
    /\ pc = "moves_done" /\ moves_input = ExampleMoves
    /\ commands = <<[count |-> 1, source |-> 2, target |-> 1],
                    [count |-> 3, source |-> 1, target |-> 3],
                    [count |-> 2, source |-> 2, target |-> 1],
                    [count |-> 1, source |-> 1, target |-> 2]>>

====
